---- MODULE Spec2Model ----
(***************************************************************************)
(* A model of clickhouse_arrow: the parameter binder bind_param and the    *)
(* HTTP client Client (execute, open_stream, read_batches, read_table,     *)
(* insert) of src/src/clickhouse_arrow/__init__.py.                        *)
(*                                                                         *)
(* Text is a sequence of one-character strings, so that quoting, joining   *)
(* and parsing act on characters.                                          *)
(***************************************************************************)
EXTENDS Integers, Sequences, FiniteSets, TLC

VARIABLES
    value,          \* bind_param: the value argument
    quote_strings,  \* bind_param: the quote_strings argument
    text,           \* bind_param: the returned text
    parsed,         \* the server's reading of text
    bpc,            \* position of the binder run: "call", "bound", "parsed"
    client,         \* Client: _url, _headers, _default_settings
    ncalls,         \* calls of the client's methods made so far
    nreq,           \* calls of the pool's urlopen made so far
    call,           \* the method and the arguments of the latest call
    request,        \* the arguments of the urlopen call of the latest step, if it made one
    answer,         \* what the server answered to it
    responses,      \* one entry per HTTP response received: its owner and whether it is open
    result,         \* how the latest step ended: what it returned or raised
    gen,            \* the generator object of the latest read_batches call
    passed          \* the settings mapping the caller passed, as the latest call left it

bindVars == <<value, quote_strings, text, parsed, bpc>>

clientVars == <<client, ncalls, nreq, call, request, answer, responses, result, gen, passed>>

vars == <<value, quote_strings, text, parsed, bpc,
          client, ncalls, nreq, call, request, answer, responses, result, gen, passed>>

(***************************************************************************)
(* Bounds of the binder's inputs.                                          *)
(***************************************************************************)
\* longest string value
MaxStrLen == 1
\* most elements of a tuple or collection, most entries of a mapping
MaxLen == 2

Alphabet == {"a", "'"}

RECURSIVE SeqsUpTo(_, _)
SeqsUpTo(S, n) ==
    IF n = 0 THEN {<<>>}
    ELSE LET shorter == SeqsUpTo(S, n - 1)
         IN  shorter \cup {Append(s, e) : s \in {t \in shorter : Len(t) = n - 1}, e \in S}

(***************************************************************************)
(* Bound values: Python objects by kind.  A dict is the sequence of its    *)
(* items in iteration order; "list" stands for every iterable that is no   *)
(* str, tuple or dict; "other" is an object of any other type, held as its *)
(* str() text.  A float is <<negative, whole part, tenth>>.                *)
(***************************************************************************)
VNone == [k |-> "none", v |-> <<>>]
VBool(b) == [k |-> "bool", v |-> b]
VInt(n) == [k |-> "int", v |-> n]
VFloat(neg, whole, tenth) == [k |-> "float", v |-> <<neg, whole, tenth>>]
VStr(s) == [k |-> "str", v |-> s]
VTuple(elems) == [k |-> "tuple", v |-> elems]
VDict(items) == [k |-> "dict", v |-> items]
VList(elems) == [k |-> "list", v |-> elems]
VOther(repr) == [k |-> "other", v |-> repr]

Strings == {VStr(s) : s \in SeqsUpTo(Alphabet, MaxStrLen)}
Numbers == {VBool(TRUE), VBool(FALSE), VInt(1), VInt(2), VInt(3), VInt(-12), VFloat(FALSE, 1, 5)}
Scalars == {VNone} \cup Numbers \cup Strings

DistinctKeys(items) ==
    \A i, j \in 1..Len(items) : i /= j => items[i][1] /= items[j][1]

DictKeys == {VStr(<<"a">>), VStr(<<"'">>), VInt(1)}

Compounds(elems, keys) ==
    {VTuple(s) : s \in SeqsUpTo(elems, MaxLen)}
    \cup {VList(s) : s \in SeqsUpTo(elems, MaxLen)}
    \cup {VDict(s) : s \in {t \in SeqsUpTo(keys \X elems, MaxLen) : DistinctKeys(t)}}

\* Compounds of scalars.
Flat == Compounds(Scalars, DictKeys)

NestElems ==
    { VInt(1), VStr(<<"a">>),
      VTuple(<<VStr(<<"a">>), VInt(2)>>),
      VList(<<VStr(<<"'">>)>>),
      VDict(<<<<VStr(<<"a">>), VNone>>>>) }

\* Compounds of compounds.
Nested == Compounds(NestElems, {VInt(1), VStr(<<"a">>)})

\* The values of the tests, deeper nesting, and objects of other types.
Deep ==
    { VTuple(<<VInt(1), VInt(2), VInt(3)>>),
      VList(<<VStr(<<"1">>), VStr(<<"2">>), VStr(<<"3">>)>>),
      VDict(<<<<VInt(1), VList(<<VInt(1), VInt(2), VInt(3)>>)>>>>),
      VDict(<<<<VInt(1), VDict(<<<<VStr(<<"a">>), VStr(<<"b">>)>>>>)>>>>), VDict(<<<<VInt(1), VDict(<<<<VStr(<<"a">>), VList(<<VStr(<<"a">>), VNone>>)>>>>)>>>>),
      VTuple(<<VList(<<VTuple(<<VStr(<<"'">>), VBool(TRUE)>>)>>)>>),
      VOther(<<"x">>),
      VList(<<VOther(<<"x">>)>>) }

Values == Scalars \cup Flat \cup Nested \cup Deep

(***************************************************************************)
(* Python's str() of the scalar kinds and str.join.                        *)
(***************************************************************************)
Digit(d) == <<"0", "1", "2", "3", "4", "5", "6", "7", "8", "9">>[d + 1]

RECURSIVE NatStr(_)
NatStr(n) == IF n < 10 THEN <<Digit(n)>> ELSE NatStr(n \div 10) \o <<Digit(n % 10)>>

IntStr(n) == IF n < 0 THEN <<"-">> \o NatStr(-n) ELSE NatStr(n)

BoolStr(b) == IF b THEN <<"T", "r", "u", "e">> ELSE <<"F", "a", "l", "s", "e">>

FloatStr(f) == (IF f[1] THEN <<"-">> ELSE <<>>) \o NatStr(f[2]) \o <<".">> \o <<Digit(f[3])>>

str(val) ==
    CASE val.k = "bool" -> BoolStr(val.v)
      [] val.k = "int" -> IntStr(val.v)
      [] val.k = "float" -> FloatStr(val.v)
      [] val.k = "none" -> <<"N", "o", "n", "e">>
      [] OTHER -> val.v

RECURSIVE join(_, _)
join(sep, parts) ==
    IF parts = <<>> THEN <<>>
    ELSE IF Len(parts) = 1 THEN parts[1]
    ELSE parts[1] \o sep \o join(sep, Tail(parts))

CommaSpace == <<",", " ">>

(***************************************************************************)
(* bind_param, branch by branch in the order of the isinstance tests.      *)
(***************************************************************************)
RECURSIVE bind_param(_, _)

\* A binder that quotes a string wherever it occurs.
bind_str_Quoted(val, quote) == <<"'">> \o val.v \o <<"'">>

bind_str(val, quote) == IF quote THEN <<"'">> \o val.v \o <<"'">> ELSE val.v

\* A binder that joins a tuple's elements last to first.
bind_tuple_Reversed(val) ==
    <<"(">> \o join(CommaSpace,
                    [i \in 1..Len(val.v) |-> bind_param(val.v[Len(val.v) + 1 - i], TRUE)])
            \o <<")">>

bind_tuple(val) ==
    <<"(">> \o join(CommaSpace, [i \in 1..Len(val.v) |-> bind_param(val.v[i], TRUE)]) \o <<")">>

bind_dict(val) ==
    <<"{">> \o join(CommaSpace,
                    [i \in 1..Len(val.v) |->
                        bind_param(val.v[i][1], TRUE) \o <<":">> \o bind_param(val.v[i][2], TRUE)])
            \o <<"}">>

bind_iterable(val) ==
    <<"[">> \o join(CommaSpace, [i \in 1..Len(val.v) |-> bind_param(val.v[i], TRUE)]) \o <<"]">>

bind_param(val, quote) ==
    IF val.k = "none" THEN <<"N", "U", "L", "L">>
    ELSE IF val.k \in {"bool", "int", "float"} THEN str(val)
    ELSE IF val.k = "str" THEN bind_str(val, quote)
    ELSE IF val.k = "tuple" THEN bind_tuple(val)
    ELSE IF val.k = "dict" THEN bind_dict(val)
    ELSE IF val.k = "list" THEN bind_iterable(val)
    ELSE str(val)

(***************************************************************************)
(* The server's literal grammar, read back from text: NULL, True, False,   *)
(* decimal numbers, single-quoted strings, and (..), [..], {k:v, ..} with  *)
(* ", " between items.  A quoted string ends at the next single quote.     *)
(***************************************************************************)
ParseFail == [ok |-> FALSE, val |-> VNone, next |-> 0]

ParseOk(val, next) == [ok |-> TRUE, val |-> val, next |-> next]

At(t, i) == IF i >= 1 /\ i <= Len(t) THEN t[i] ELSE "<eof>"

HasPrefix(t, i, p) == i + Len(p) - 1 <= Len(t) /\ SubSeq(t, i, i + Len(p) - 1) = p

Digits == {"0", "1", "2", "3", "4", "5", "6", "7", "8", "9"}

DigitValue(c) == CHOOSE d \in 0..9 : Digit(d) = c

RECURSIVE DecimalValue(_)
DecimalValue(ds) ==
    IF ds = <<>> THEN 0
    ELSE 10 * DecimalValue(SubSeq(ds, 1, Len(ds) - 1)) + DigitValue(ds[Len(ds)])

\* The end of the run of digits that starts at i (i - 1 when there is none).
DigitsEnd(t, i) ==
    LET stops == {j \in i..(Len(t) + 1) : At(t, j) \notin Digits}
    IN  (CHOOSE j \in stops : \A o \in stops : j <= o) - 1

ParseString(t, i) ==
    LET closers == {j \in (i + 1)..Len(t) : t[j] = "'"}
    IN  IF closers = {} THEN ParseFail
        ELSE LET j == CHOOSE c \in closers : \A o \in closers : c <= o
             IN  ParseOk(VStr(SubSeq(t, i + 1, j - 1)), j + 1)

ParseNumber(t, i) ==
    LET neg == At(t, i) = "-"
        first == IF neg THEN i + 1 ELSE i
        last == DigitsEnd(t, first)
        whole == DecimalValue(SubSeq(t, first, last))
    IN  IF last < first THEN ParseFail
        ELSE IF At(t, last + 1) = "."
        THEN IF At(t, last + 2) \in Digits /\ At(t, last + 3) \notin Digits
             THEN ParseOk(VFloat(neg, whole, DigitValue(t[last + 2])), last + 3)
             ELSE ParseFail
        ELSE ParseOk(VInt(IF neg THEN -whole ELSE whole), last + 1)

Closer(kind) == CASE kind = "tuple" -> ")" [] kind = "list" -> "]" [] kind = "dict" -> "}"

RECURSIVE ParseValue(_, _), ParseItems(_, _, _, _)

\* One item of a compound: a value, or key:value in a mapping.
ParseItem(t, i, kind) ==
    LET first == ParseValue(t, i)
    IN  IF kind /= "dict" \/ ~first.ok THEN first
        ELSE IF At(t, first.next) /= ":" THEN ParseFail
        ELSE LET second == ParseValue(t, first.next + 1)
             IN  IF second.ok THEN ParseOk(<<first.val, second.val>>, second.next)
                 ELSE ParseFail

\* The items after the opening bracket, items so far in acc.
ParseItems(t, i, kind, acc) ==
    IF acc = <<>> /\ At(t, i) = Closer(kind) THEN ParseOk([k |-> kind, v |-> <<>>], i + 1)
    ELSE LET item == ParseItem(t, i, kind)
         IN  IF ~item.ok THEN ParseFail
             ELSE IF At(t, item.next) = Closer(kind)
             THEN ParseOk([k |-> kind, v |-> Append(acc, item.val)], item.next + 1)
             ELSE IF HasPrefix(t, item.next, CommaSpace)
             THEN ParseItems(t, item.next + 2, kind, Append(acc, item.val))
             ELSE ParseFail

ParseValue(t, i) ==
    CASE HasPrefix(t, i, <<"N", "U", "L", "L">>) -> ParseOk(VNone, i + 4)
      [] HasPrefix(t, i, <<"T", "r", "u", "e">>) -> ParseOk(VBool(TRUE), i + 4)
      [] HasPrefix(t, i, <<"F", "a", "l", "s", "e">>) -> ParseOk(VBool(FALSE), i + 5)
      [] At(t, i) = "'" -> ParseString(t, i)
      [] At(t, i) = "(" -> ParseItems(t, i + 1, "tuple", <<>>)
      [] At(t, i) = "[" -> ParseItems(t, i + 1, "list", <<>>)
      [] At(t, i) = "{" -> ParseItems(t, i + 1, "dict", <<>>)
      [] At(t, i) = "-" \/ At(t, i) \in Digits -> ParseNumber(t, i)
      [] OTHER -> ParseFail

\* The value the whole text denotes, or Unparsable.
Unparsable == [k |-> "unparsable", v |-> <<>>]

ParseLiteral(t) ==
    LET r == ParseValue(t, 1)
    IN  IF r.ok /\ r.next = Len(t) + 1 THEN r.val ELSE Unparsable

(***************************************************************************)
(* Python dicts as the sequence of their items in iteration order.         *)
(***************************************************************************)
HasKey(items, key) == \E i \in 1..Len(items) : items[i][1] = key

Lookup(items, key) == items[CHOOSE i \in 1..Len(items) : items[i][1] = key][2]

\* d[key] = val: an existing key keeps its place, a new key goes last.
SetItem(items, kv) ==
    IF HasKey(items, kv[1])
    THEN [i \in 1..Len(items) |-> IF items[i][1] = kv[1] THEN kv ELSE items[i]]
    ELSE Append(items, kv)

\* d.update(new), and the items of d | new.
RECURSIVE DictUpdate(_, _)
DictUpdate(items, new) ==
    IF new = <<>> THEN items ELSE DictUpdate(SetItem(items, Head(new)), Tail(new))

\* bool(d) of an optional dict: None and {} are false.
Truthy(d) == d.k = "dict" /\ Len(d.v) > 0

(***************************************************************************)
(* urllib.parse.urlencode with quote_plus, on text whose pieces are words  *)
(* of unreserved characters or single reserved characters.                 *)
(***************************************************************************)
\* The grave accent character (U+0060), which a string of this module cannot hold.
Backtick == "<U+0060>"

QuotePiece(c) ==
    CASE c = " " -> "+"
      [] c = "+" -> "%2B"
      [] c = Backtick -> "%60"
      [] c = "(" -> "%28"
      [] c = ")" -> "%29"
      [] c = "," -> "%2C"
      [] c = "'" -> "%27"
      [] c = ":" -> "%3A"
      [] c = "/" -> "%2F"
      [] c = "?" -> "%3F"
      [] c = "&" -> "%26"
      [] c = "=" -> "%3D"
      [] OTHER -> c

quote_plus(t) == [i \in 1..Len(t) |-> QuotePiece(t[i])]

urlencode(query) ==
    join(<<"&">>,
         [i \in 1..Len(query) |->
             quote_plus(str(query[i][1])) \o <<"=">> \o quote_plus(str(query[i][2]))])

append_url(url, query) == url \o <<"?">> \o urlencode(query)

(***************************************************************************)
(* Request construction.                                                   *)
(***************************************************************************)
\* A body whose parameters are bound with quote_strings true.
\* A body whose parameters are bound with quote_strings true.
create_post_body_Quoted(query, params) ==
    IF Truthy(params)
    THEN DictUpdate(<<<<<<"query">>, query>>>>,
                    [i \in 1..Len(params.v) |->
                        <<(<<"param_">> \o str(params.v[i][1])),
                          bind_param(params.v[i][2], TRUE)>>])
    ELSE <<<<<<"query">>, query>>>>

create_post_body(query, params) ==
    IF Truthy(params)
    THEN DictUpdate(<<<<<<"query">>, query>>>>,
                    [i \in 1..Len(params.v) |->
                        <<(<<"param_">> \o str(params.v[i][1])),
                          bind_param(params.v[i][2], FALSE)>>])
    ELSE <<<<<<"query">>, query>>>>

\* urllib3.encode_multipart_formdata: the body and its content type (the
\* random boundary left out).
encode_multipart_formdata(fields) ==
    [body |-> [k |-> "multipart", v |-> fields], content_type |-> <<"multipart/form-data">>]

\* A merge in which the client's default wins on a shared key.
_combine_settings_DefaultWins(self, settings) ==
    IF settings.k = "none" THEN self.default_settings
    ELSE IF self.default_settings.k = "none" THEN settings
    ELSE VDict(DictUpdate(settings.v, self.default_settings.v))

_combine_settings(self, settings) ==
    IF settings.k = "none" THEN self.default_settings
    ELSE IF self.default_settings.k = "none" THEN settings
    ELSE VDict(DictUpdate(self.default_settings.v, settings.v))

NoFormat == <<>>

ArrowStream == <<"ArrowStream">>

\* An _execute that adds the content type to the client's own headers.
_execute_leaves_InPlace(self, settings) ==
    [ self |-> [self EXCEPT !.headers =
                    DictUpdate(self.headers, <<<<"Content-Type", <<"multipart/form-data">>>>>>)],
      settings |-> settings ]

\* The client and the caller's settings mapping as Client._execute leaves
\* them: the headers and the settings are merged with |, which builds a new
\* dict, and the name settings is bound anew, so neither object is written.
_execute_leaves(self, settings) == [self |-> self, settings |-> settings]

\* The client as Client.insert leaves it: the headers are merged with |.
insert_leaves(self) == self

\* The urlopen call of Client._execute.
_execute_request(self, query, params, settings, format) ==
    LET q == IF format /= NoFormat THEN query \o <<" ", "FORMAT", " ">> \o format ELSE query
        enc == encode_multipart_formdata(create_post_body(q, params))
        effective == _combine_settings(self, settings)
    IN  [ method |-> "POST",
          url |-> IF Truthy(effective) THEN append_url(self.url, effective.v) ELSE self.url,
          body |-> enc.body,
          headers |-> DictUpdate(self.headers, <<<<"Content-Type", enc.content_type>>>>),
          preload_content |-> FALSE ]

serialize_ipc(table) == [k |-> "ipc_file", v |-> table]

\* A column clause without the backticks.
insert_columns_Bare(data) ==
    join(CommaSpace, [i \in 1..Len(data.column_names) |-> data.column_names[i]])

insert_columns(data) ==
    join(CommaSpace,
         [i \in 1..Len(data.column_names) |-> <<Backtick>> \o data.column_names[i] \o <<Backtick>>])

insert_query(table, data) ==
    <<"INSERT", " ", "INTO", " ">> \o table \o <<" ", "(">> \o insert_columns(data)
        \o <<")", " ", "FORMAT", " ", "Arrow">>

\* The urlopen call of Client.insert.
insert_request(self, table, data) ==
    [ method |-> "POST",
      url |-> append_url(self.url, <<<<VStr(<<"query">>), VStr(insert_query(table, data))>>>>),
      body |-> serialize_ipc(data),
      headers |-> DictUpdate(self.headers,
                             <<<<"Content-Type", <<"application/octet-stream">>>>>>),
      preload_content |-> TRUE ]

(***************************************************************************)
(* Responses and exceptions.                                               *)
(***************************************************************************)
OK == 200

\* str() of a bytes object: its repr.
str_bytes(data) == <<"b'">> \o data \o <<"'">>

ClickhouseException(status, body) ==
    [ type |-> "ClickhouseException",
      message |-> <<"Unexpected HTTP response status code: ">> \o IntStr(status) \o <<".">>,
      status |-> status,
      body |-> body ]

NoException == [type |-> "none", message |-> <<>>, status |-> 0, body |-> <<>>]

OtherException(type, message) == [type |-> type, message |-> message, status |-> 0, body |-> <<>>]

ensure_success_status(response) ==
    IF response.status /= OK
    THEN ClickhouseException(response.status, str_bytes(response.data))
    ELSE NoException

\* pyarrow.Table.from_batches(batches, schema) on the batches of one stream.
ConcatRows(batches) == join(<<>>, batches)

NoSchema == "none"

from_batches(batches, stream_schema, schema) ==
    IF schema = NoSchema /\ batches = <<>>
    THEN [ok |-> FALSE,
          exc |-> OtherException("ValueError",
                                 <<"Must pass schema, or at least one RecordBatch">>),
          table |-> <<>>]
    ELSE IF schema /= NoSchema /\ batches /= <<>> /\ schema /= stream_schema
    THEN [ok |-> FALSE, exc |-> OtherException("ArrowInvalid", <<"schema mismatch">>),
          table |-> <<>>]
    ELSE [ok |-> TRUE, exc |-> NoException,
          table |-> [schema |-> IF schema = NoSchema THEN stream_schema ELSE schema,
                     rows |-> ConcatRows(batches)]]
(***************************************************************************)
(* Bounds and inputs of the client runs.                                   *)
(***************************************************************************)
\* calls of the client's methods in one run
MaxCalls == 2
\* most record batches in one response stream
MaxBatches == 2

Queries == {<<"select", " ", "1">>}

ParamChoices ==
    { VNone,
      VDict(<<<<VStr(<<"s">>), VStr(<<"1", "0">>)>>,
              <<VStr(<<"expected">>), VTuple(<<VStr(<<"a">>), VStr(<<"b">>)>>)>>>>) }

Limit == VStr(<<"limit">>)

Threads == VStr(<<"max_threads">>)

SettingChoices ==
    { VNone,
      VDict(<<>>),
      VDict(<<<<Threads, VInt(2)>>, <<Limit, VInt(1)>>>>) }

DefaultSettingChoices ==
    { VNone,
      VDict(<<<<Limit, VInt(42)>>, <<VStr(<<"database">>), VStr(<<"a", " ", "b">>)>>>>) }

Schemas == {"s1", "s2"}

SchemaChoices == {NoSchema} \cup Schemas

Batches == {<<"r1">>, <<"r2", "r3">>}

TableNames == {<<"numbers">>}

Tables ==
    { [column_names |-> <<<<"ints">>, <<"strs">>>>, rows |-> <<"r1", "r2">>],
      [column_names |-> <<<<"a", " ", "b">>>>, rows |-> <<>>] }

\* What the server can answer.  A stream is what the codec finds in the
\* body: a schema (or a malformed one), record batches, and then either the
\* end-of-stream mark or bytes it cannot decode.
NoStream == [schema |-> "none", batches |-> <<>>, tail |-> "none"]

StreamSchemas == {"s1"}

Streams ==
    [schema : StreamSchemas, batches : SeqsUpTo(Batches, MaxBatches), tail : {"eos", "corrupt"}]
    \cup {[schema |-> "malformed", batches |-> <<>>, tail |-> "corrupt"]}

ErrorStatuses == {400, 503}

ErrorResponses ==
    {[fault |-> FALSE, status |-> s, data |-> <<"Code: 62">>, stream |-> NoStream] :
        s \in ErrorStatuses}

\* urlopen raising instead of returning a response.
TransportFaults == {[fault |-> TRUE, status |-> 0, data |-> <<>>, stream |-> NoStream]}

BufferedAnswers ==
    {[fault |-> FALSE, status |-> OK, data |-> <<"data">>, stream |-> NoStream]}
    \cup ErrorResponses \cup TransportFaults

StreamAnswers ==
    {[fault |-> FALSE, status |-> OK, data |-> <<>>, stream |-> s] : s \in Streams}
    \cup ErrorResponses \cup TransportFaults

(***************************************************************************)
(* Client.__init__ and the state of a run.                                 *)
(***************************************************************************)
NewClient(url, user, password, default_settings) ==
    [ url |-> url,
      headers |-> <<<<"X-ClickHouse-User", user>>, <<"X-ClickHouse-Key", password>>>>,
      default_settings |-> default_settings ]

NoRequest ==
    [method |-> "none", url |-> <<>>, body |-> <<>>, headers |-> <<>>, preload_content |-> TRUE]

NoResult == [op |-> "none", kind |-> "none", val |-> <<>>, exc |-> NoException]

Return(op, val) == [op |-> op, kind |-> "return", val |-> val, exc |-> NoException]

Raise(op, exc) == [op |-> op, kind |-> "raise", val |-> <<>>, exc |-> exc]

NoTable == [column_names |-> <<>>, rows |-> <<>>]

Call(op, query, params, settings, schema, table, data) ==
    [ op |-> op, query |-> query, params |-> params, settings |-> settings,
      schema |-> schema, table |-> table, data |-> data ]

Query(op, query, params, settings) ==
    Call(op, query, params, settings, NoSchema, <<>>, NoTable)

NoCall == Query("none", <<>>, VNone, VNone)

NoAnswer == [fault |-> FALSE, status |-> 0, data |-> <<>>, stream |-> NoStream]

NoGen == [pc |-> "none", args |-> NoCall, resp |-> 0, stream |-> NoStream, got |-> <<>>]

\* A client just constructed, as tests/conftest.py constructs it.
Constructed(default_settings) ==
    /\ client = NewClient(<<"http://localhost:8123/">>, <<"default">>, <<"test">>,
                          default_settings)
    /\ ncalls = 0
    /\ nreq = 0
    /\ call = NoCall
    /\ request = NoRequest
    /\ answer = NoAnswer
    /\ responses = <<>>
    /\ result = NoResult
    /\ gen = NoGen
    /\ passed = VNone

ClientInit == \E d \in DefaultSettingChoices : Constructed(d)

\* The response of one urlopen call, as the run remembers it: whether it is
\* open and, while it is, the method that obtained it.
Released == [op |-> "-", open |-> FALSE]

Response(op, open) == IF open THEN [op |-> op, open |-> TRUE] ELSE Released

\* The responses after one more urlopen call: a fault leaves none.
Received(resps, op, ans, open) ==
    IF ans.fault THEN resps ELSE Append(resps, Response(op, open))

\* A urlopen call made again when it fails or answers a status other than 200.
Sent_Retry(req, op, ans, open) ==
    /\ request' = req
    /\ answer' = ans
    /\ nreq' = IF ans.fault \/ ans.status /= OK THEN nreq + 2 ELSE nreq + 1
    /\ responses' = Received(responses, op, ans, open)

\* One urlopen call: the request sent, what came back, the response kept.
Sent(req, op, ans, open) ==
    /\ request' = req
    /\ answer' = ans
    /\ nreq' = nreq + 1
    /\ responses' = Received(responses, op, ans, open)

\* The caller is between calls: it holds no outcome and no generator.
Idle == result.kind = "none" /\ gen.pc = "none"

TransportError == OtherException("TransportError", <<>>)

ArrowInvalid == OtherException("ArrowInvalid", <<>>)

StopIteration == OtherException("StopIteration", <<>>)

\* Client._execute: how it ends on what urlopen did (NoException: it
\* returns the response).
_execute_exc(ans) ==
    IF ans.fault THEN TransportError ELSE ensure_success_status(ans)

\* Client.open_stream: _execute, then pa.ipc.open_stream reads the schema.
open_stream_exc(ans) ==
    IF _execute_exc(ans).type /= "none" THEN _execute_exc(ans)
    ELSE IF ans.stream.schema = "malformed" THEN ArrowInvalid
    ELSE NoException

\* Whether the response is still open when _execute is left: reading
\* response.data for the exception body drains it, which releases it.
\* open_stream hands the open response to the codec and closes it on no path.
open_stream_leaves_open(ans) == ~ans.fault /\ ans.status = OK

(***************************************************************************)
(* Client.execute                                                          *)
(***************************************************************************)
Execute ==
    \E query \in Queries, params \in ParamChoices, settings \in SettingChoices,
       ans \in BufferedAnswers :
        /\ ncalls < MaxCalls
        /\ Idle
        /\ ncalls' = ncalls + 1
        /\ call' = Query("execute", query, params, settings)
        /\ Sent(_execute_request(client, query, params, settings, NoFormat),
                "execute", ans, FALSE)
        /\ result' = IF _execute_exc(ans).type /= "none"
                     THEN Raise("execute", _execute_exc(ans))
                     ELSE Return("execute", ans.data)
        /\ client' = _execute_leaves(client, settings).self
        /\ passed' = _execute_leaves(client, settings).settings
        /\ UNCHANGED bindVars
        /\ UNCHANGED gen

(***************************************************************************)
(* Client.open_stream                                                      *)
(***************************************************************************)
OpenStream ==
    \E query \in Queries, params \in ParamChoices, settings \in SettingChoices :
        LET req == _execute_request(client, query, params, settings, ArrowStream)
        IN  \E ans \in StreamAnswers :
                /\ ncalls < MaxCalls
                /\ Idle
                /\ ncalls' = ncalls + 1
                /\ call' = Query("open_stream", query, params, settings)
                /\ Sent(req, "open_stream", ans, open_stream_leaves_open(ans))
                /\ result' = IF open_stream_exc(ans).type /= "none"
                             THEN Raise("open_stream", open_stream_exc(ans))
                             ELSE Return("open_stream", [reader |-> Len(responses) + 1])
                /\ client' = _execute_leaves(client, settings).self
                /\ passed' = _execute_leaves(client, settings).settings
                /\ UNCHANGED bindVars
                /\ UNCHANGED gen

(***************************************************************************)
(* Client.insert                                                           *)
(***************************************************************************)
Insert ==
    \E table \in TableNames, data \in Tables, ans \in BufferedAnswers :
        /\ ncalls < MaxCalls
        /\ Idle
        /\ ncalls' = ncalls + 1
        /\ call' = Call("insert", <<>>, VNone, VNone, NoSchema, table, data)
        /\ Sent(insert_request(client, table, data), "insert", ans, FALSE)
        /\ result' = IF _execute_exc(ans).type /= "none"
                     THEN Raise("insert", _execute_exc(ans))
                     ELSE Return("insert", VNone)
        /\ client' = insert_leaves(client)
        /\ passed' = VNone
        /\ UNCHANGED bindVars
        /\ UNCHANGED gen

(***************************************************************************)
(* Client.read_batches: the call makes a generator object; its body runs   *)
(* when the consumer pulls.                                                *)
(***************************************************************************)
\* A read_batches that opens the stream when it is called.
ReadBatches_Eager ==
    \E query \in Queries, params \in ParamChoices, settings \in SettingChoices,
       ans \in StreamAnswers :
        /\ ncalls < MaxCalls
        /\ Idle
        /\ ncalls' = ncalls + 1
        /\ call' = Query("read_batches", query, params, settings)
        /\ Sent(_execute_request(client, query, params, settings, ArrowStream),
                "read_batches", ans, open_stream_leaves_open(ans))
        /\ IF open_stream_exc(ans).type /= "none"
           THEN /\ gen' = gen
                /\ result' = Raise("read_batches", open_stream_exc(ans))
           ELSE /\ gen' = [ pc |-> "suspended",
                            args |-> Query("read_batches", query, params, settings),
                            resp |-> Len(responses) + 1, stream |-> ans.stream,
                            got |-> <<>> ]
                /\ result' = Return("read_batches", "generator")
        /\ passed' = settings
        /\ UNCHANGED bindVars
        /\ UNCHANGED client

ReadBatches ==
    \E query \in Queries, params \in ParamChoices, settings \in SettingChoices :
        /\ ncalls < MaxCalls
        /\ Idle
        /\ ncalls' = ncalls + 1
        /\ call' = Query("read_batches", query, params, settings)
        /\ gen' = [ pc |-> "created",
                    args |-> Query("read_batches", query, params, settings),
                    resp |-> 0, stream |-> NoStream, got |-> <<>> ]
        /\ result' = Return("read_batches", "generator")
        /\ passed' = settings
        /\ UNCHANGED bindVars
        /\ UNCHANGED <<client, nreq, request, answer, responses>>

\* reader.close() when the with block is left: the reader lets go of the
\* response it reads from.
CloseReader(resps, i) == [resps EXCEPT ![i] = Released]

\* reader.read_next_batch() with n batches read so far.
read_next_batch(stream, n) ==
    IF n < Len(stream.batches) THEN [kind |-> "batch", batch |-> stream.batches[n + 1]]
    ELSE IF stream.tail = "eos" THEN [kind |-> "StopIteration", batch |-> <<>>]
    ELSE [kind |-> "ArrowInvalid", batch |-> <<>>]

\* A loop that passes over a batch before each one it yields.
GenLoop_Skip(g, resps, n) ==
    LET r == read_next_batch(g.stream, n + 1)
    IN  IF r.kind = "batch"
        THEN [gen |-> [g EXCEPT !.pc = "suspended", !.got = Append(g.got, r.batch)],
              responses |-> resps,
              result |-> Return("next", r.batch)]
        ELSE [gen |-> [g EXCEPT !.pc = "done"],
              responses |-> CloseReader(resps, g.resp),
              result |-> Raise("next", IF r.kind = "StopIteration" THEN StopIteration
                                       ELSE ArrowInvalid)]

\* The loop of the generator from the point where the reader is open, with
\* n batches read so far: yield the next batch, or leave the with block at
\* the end of the stream (StopIteration caught, the generator returns) or on
\* a decoding error (which goes on to the consumer).
GenLoop(g, resps, n) ==
    LET r == read_next_batch(g.stream, n)
    IN  IF r.kind = "batch"
        THEN [gen |-> [g EXCEPT !.pc = "suspended", !.got = Append(g.got, r.batch)],
              responses |-> resps,
              result |-> Return("next", r.batch)]
        ELSE [gen |-> [g EXCEPT !.pc = "done"],
              responses |-> CloseReader(resps, g.resp),
              result |-> Raise("next", IF r.kind = "StopIteration" THEN StopIteration
                                       ELSE ArrowInvalid)]

\* next() on a generator that has not started: open_stream, then the loop.
\* The with block is entered only when open_stream returned.
NextFirst ==
    \E ans \in StreamAnswers :
        LET recv == Received(responses, "read_batches", ans, open_stream_leaves_open(ans))
            started == [gen EXCEPT !.resp = Len(recv), !.stream = ans.stream]
            step == GenLoop(started, recv, 0)
        IN  /\ gen.pc = "created"
            /\ request' = _execute_request(client, gen.args.query, gen.args.params,
                                           gen.args.settings, ArrowStream)
            /\ answer' = ans
            /\ nreq' = nreq + 1
            /\ IF open_stream_exc(ans).type /= "none"
               THEN /\ gen' = [gen EXCEPT !.pc = "done"]
                    /\ responses' = recv
                    /\ result' = Raise("next", open_stream_exc(ans))
               ELSE /\ gen' = step.gen
                    /\ responses' = step.responses
                    /\ result' = step.result
            /\ client' = _execute_leaves(client, gen.args.settings).self
            /\ passed' = _execute_leaves(client, gen.args.settings).settings
            /\ UNCHANGED bindVars
            /\ UNCHANGED <<ncalls, call>>

\* next() on a generator suspended at its yield.
NextMore ==
    LET step == GenLoop(gen, responses, Len(gen.got))
    IN  /\ gen.pc = "suspended"
        /\ gen' = step.gen
        /\ responses' = step.responses
        /\ result' = step.result
        /\ request' = NoRequest
        /\ answer' = NoAnswer
        /\ UNCHANGED bindVars
        /\ UNCHANGED <<client, ncalls, nreq, call, passed>>

\* next() on a generator that has finished.
NextDone ==
    /\ gen.pc = "done"
    /\ result' = Raise("next", StopIteration)
    /\ request' = NoRequest
    /\ answer' = NoAnswer
    /\ UNCHANGED bindVars
    /\ UNCHANGED <<client, ncalls, nreq, call, responses, gen, passed>>

\* close() on a generator: one that has not started just ends; one
\* suspended at its yield gets GeneratorExit there and leaves the with block.
CloseGen ==
    /\ gen.pc \in {"created", "suspended"}
    /\ gen' = [gen EXCEPT !.pc = "done"]
    /\ responses' = IF gen.pc = "suspended" THEN CloseReader(responses, gen.resp)
                    ELSE responses
    /\ result' = Return("close", VNone)
    /\ request' = NoRequest
    /\ answer' = NoAnswer
    /\ UNCHANGED bindVars
    /\ UNCHANGED <<client, ncalls, nreq, call, passed>>

(***************************************************************************)
(* Client.read_table: Table.from_batches pulls every batch of a fresh      *)
(* read_batches generator, then builds the table.                          *)
(***************************************************************************)
\* The batches a generator yields when it is pulled until it ends, from n
\* batches on, and how it ends.
RECURSIVE Drained(_, _)
Drained(stream, n) ==
    LET r == read_next_batch(stream, n)
    IN  IF r.kind = "batch"
        THEN LET rest == Drained(stream, n + 1)
             IN  [batches |-> <<r.batch>> \o rest.batches, end |-> rest.end]
        ELSE [batches |-> <<>>, end |-> r.kind]

\* A read_table that does not hand its schema to from_batches.
read_table_NoSchema(ans, schema) ==
    LET drained == Drained(ans.stream, 0)
        built == from_batches(drained.batches, ans.stream.schema, NoSchema)
    IN  IF open_stream_exc(ans).type /= "none" THEN Raise("read_table", open_stream_exc(ans))
        ELSE IF drained.end /= "StopIteration" THEN Raise("read_table", ArrowInvalid)
        ELSE IF ~built.ok THEN Raise("read_table", built.exc)
        ELSE Return("read_table", built.table)

\* How read_table ends on what urlopen did.
read_table(ans, schema) ==
    LET drained == Drained(ans.stream, 0)
        built == from_batches(drained.batches, ans.stream.schema, schema)
    IN  IF open_stream_exc(ans).type /= "none" THEN Raise("read_table", open_stream_exc(ans))
        ELSE IF drained.end /= "StopIteration" THEN Raise("read_table", ArrowInvalid)
        ELSE IF ~built.ok THEN Raise("read_table", built.exc)
        ELSE Return("read_table", built.table)

ReadTable ==
    \E query \in Queries, params \in ParamChoices, settings \in SettingChoices :
        LET req == _execute_request(client, query, params, settings, ArrowStream)
        IN  \E schema \in SchemaChoices, ans \in StreamAnswers :
                /\ ncalls < MaxCalls
                /\ Idle
                /\ ncalls' = ncalls + 1
                /\ call' = Call("read_table", query, params, settings, schema, <<>>, NoTable)
                /\ request' = req
                /\ answer' = ans
                /\ nreq' = nreq + 1
                   \* a generator that got its reader leaves the with block, by the
                   \* end of the stream or by a decoding error, before read_table ends
                /\ responses' = Received(responses, "read_table", ans,
                                         open_stream_leaves_open(ans)
                                            /\ ans.stream.schema = "malformed")
                /\ result' = read_table(ans, schema)
                /\ client' = _execute_leaves(client, settings).self
                /\ passed' = _execute_leaves(client, settings).settings
                /\ UNCHANGED bindVars
                /\ UNCHANGED gen

\* The caller moves on: it lets go of the latest outcome and of a
\* generator that has finished.
Proceed ==
    /\ result.kind /= "none"
    /\ gen.pc \in {"none", "done"}
    /\ result' = NoResult
    /\ call' = NoCall
    /\ request' = NoRequest
    /\ answer' = NoAnswer
    /\ gen' = NoGen
    /\ passed' = VNone
    /\ UNCHANGED bindVars
    /\ UNCHANGED <<client, ncalls, nreq, responses>>

Next ==
    \/ Execute
    \/ OpenStream
    \/ Insert
    \/ ReadBatches
    \/ NextFirst
    \/ NextMore
    \/ NextDone
    \/ CloseGen
    \/ ReadTable
    \/ Proceed

(***************************************************************************)
(* The binder run: a caller picks a value and a quote_strings flag and     *)
(* calls bind_param once.                                                  *)
(***************************************************************************)
NoText == <<"?">>

BindInit ==
    /\ value \in Values
    /\ quote_strings \in BOOLEAN
    /\ text = NoText
    /\ parsed = NoText
    /\ bpc = "call"
    /\ Constructed(VNone)

Bind ==
    /\ bpc = "call"
    /\ text' = bind_param(value, quote_strings)
    /\ bpc' = "bound"
    /\ UNCHANGED <<value, quote_strings, parsed>>
    /\ UNCHANGED clientVars

BindNext == Bind

SpecBind == BindInit /\ [][BindNext]_vars

Parse ==
    /\ bpc = "bound"
    /\ parsed' = ParseLiteral(text)
    /\ bpc' = "parsed"
    /\ UNCHANGED <<value, quote_strings, text>>
    /\ UNCHANGED clientVars

RoundTripNext == Bind \/ Parse

SpecRoundTrip == BindInit /\ [][RoundTripNext]_vars


(***************************************************************************)
(* The client run: one client, its methods called one after another, and   *)
(* a consumer pulling on or closing the generator of read_batches.         *)
(***************************************************************************)
Init ==
    /\ ClientInit
    /\ value = VNone
    /\ quote_strings = FALSE
    /\ text = NoText
    /\ parsed = NoText
    /\ bpc = "idle"

Spec == Init /\ [][Next]_vars

(***************************************************************************)
(* Claims about bind_param.                                                *)
(***************************************************************************)
Compound(val) == val.k \in {"tuple", "list", "dict"}

\* A value built only of the kinds the binder documents (no "other" object).
RECURSIVE Supported(_)
Supported(val) ==
    CASE val.k = "other" -> FALSE
      [] val.k \in {"tuple", "list"} -> \A i \in 1..Len(val.v) : Supported(val.v[i])
      [] val.k = "dict" ->
            \A i \in 1..Len(val.v) : Supported(val.v[i][1]) /\ Supported(val.v[i][2])
      [] OTHER -> TRUE

Quoted(s) == <<"'">> \o s \o <<"'">>

HasQuote(t) == \E i \in 1..Len(t) : t[i] = "'"

Opener(kind) == CASE kind = "tuple" -> "(" [] kind = "list" -> "[" [] kind = "dict" -> "{"

\* The text of a compound whose items are rendered by Item(_).
Rendered(val, Item(_)) ==
    <<Opener(val.k)>>
        \o join(CommaSpace,
                [i \in 1..Len(val.v) |->
                    IF val.k = "dict"
                    THEN Item(val.v[i][1]) \o <<":">> \o Item(val.v[i][2])
                    ELSE Item(val.v[i])])
        \o <<Closer(val.k)>>

\* What a nested occurrence must look like: a string in quotes, anything
\* else as it is bound with quote_strings = false.
NestedText(e) == IF e.k = "str" THEN Quoted(e.v) ELSE bind_param(e, FALSE)

BoundQuoted(e) == bind_param(e, TRUE)

\* C2: a tuple is its bound elements joined with ", " in parentheses, a
\* mapping its key:value pairs joined with ", " in braces in iteration order,
\* any other iterable its bound elements joined with ", " in brackets, each
\* element bound recursively in its place; (1, 2, 3) gives "(1, 2, 3)" and
\* {"a": 1} gives "{'a':1}".
C2_CompoundRendering ==
    bpc = "bound" =>
        /\ Compound(value) => text = Rendered(value, BoundQuoted)
        /\ value = VTuple(<<VInt(1), VInt(2), VInt(3)>>) =>
              text = <<"(", "1", ",", " ", "2", ",", " ", "3", ")">>
        /\ value = VDict(<<<<VStr(<<"a">>), VInt(1)>>>>) =>
              text = <<"{", "'", "a", "'", ":", "1", "}">>
        /\ value = VList(<<VInt(2), VInt(1)>>) => text = <<"[", "2", ",", " ", "1", "]">>
        /\ value = VDict(<<<<VInt(1), VStr(<<"a">>)>>, <<VStr(<<"a">>), VNone>>>>) =>
              text = <<"{", "1", ":", "'", "a", "'", ",", " ", "'", "a", "'", ":",
                       "N", "U", "L", "L", "}">>

\* C2 witness: a mapping nested in a mapping was bound.
C2_Witness ==
    /\ bpc = "bound"
    /\ value.k = "dict"
    /\ \E i \in 1..Len(value.v) : value.v[i][2].k = "dict" /\ Len(value.v[i][2].v) > 0
    /\ text[1] = "{"

\* C3: the text of every supported tuple, mapping or collection parses back,
\* under the server's literal grammar, to the value that was bound.
C3_RoundTrip ==
    bpc = "parsed" /\ Compound(value) /\ Supported(value) => parsed = value

\* The round trip for the texts in which no string holds a single quote.
RECURSIVE QuoteFree(_)
QuoteFree(val) ==
    CASE val.k = "str" -> ~HasQuote(val.v)
      [] val.k \in {"tuple", "list"} -> \A i \in 1..Len(val.v) : QuoteFree(val.v[i])
      [] val.k = "dict" ->
            \A i \in 1..Len(val.v) : QuoteFree(val.v[i][1]) /\ QuoteFree(val.v[i][2])
      [] OTHER -> TRUE

RoundTripQuoteFree ==
    bpc = "parsed" /\ Compound(value) /\ Supported(value) /\ QuoteFree(value) => parsed = value

(***************************************************************************)
(* Claims about the client.                                                *)
(***************************************************************************)
\* The latest request is the one the latest call sent.
SentBy(ops) == call.op \in ops /\ request.method = "POST"

ItemsOf(d) == IF d.k = "dict" THEN d.v ELSE <<>>

KeysOf(d) == {ItemsOf(d)[i][1] : i \in 1..Len(ItemsOf(d))}

\* A URL read back: the part before "?", and the key=value pairs after it.
Positions(t, c) == {i \in 1..Len(t) : t[i] = c}

First(t, c) == CHOOSE i \in Positions(t, c) : \A j \in Positions(t, c) : i <= j

UrlBase(url) == IF Positions(url, "?") = {} THEN url ELSE SubSeq(url, 1, First(url, "?") - 1)

UrlQuery(url) ==
    IF Positions(url, "?") = {} THEN <<>> ELSE SubSeq(url, First(url, "?") + 1, Len(url))

RECURSIVE Split(_, _)
Split(t, c) ==
    IF Positions(t, c) = {} THEN <<t>>
    ELSE <<SubSeq(t, 1, First(t, c) - 1)>> \o Split(SubSeq(t, First(t, c) + 1, Len(t)), c)

KeyValue(t) ==
    IF Positions(t, "=") = {} THEN <<t, <<>>>>
    ELSE <<SubSeq(t, 1, First(t, "=") - 1), SubSeq(t, First(t, "=") + 1, Len(t))>>

UrlPairs(url) ==
    IF UrlQuery(url) = <<>> THEN <<>>
    ELSE LET parts == Split(UrlQuery(url), "&")
         IN  [i \in 1..Len(parts) |-> KeyValue(parts[i])]

UnquotePiece(c) ==
    CASE c = "+" -> " "
      [] c = "%2B" -> "+"
      [] c = "%60" -> Backtick
      [] c = "%28" -> "("
      [] c = "%29" -> ")"
      [] c = "%2C" -> ","
      [] c = "%27" -> "'"
      [] c = "%3A" -> ":"
      [] c = "%2F" -> "/"
      [] c = "%3F" -> "?"
      [] c = "%26" -> "&"
      [] c = "%3D" -> "="
      [] OTHER -> c

unquote_plus(t) == [i \in 1..Len(t) |-> UnquotePiece(t[i])]

\* The key=value pairs of a URL as the server decodes them.
DecodedPairs(url) ==
    {<<unquote_plus(UrlPairs(url)[i][1]), unquote_plus(UrlPairs(url)[i][2])>> :
        i \in 1..Len(UrlPairs(url))}

\* The value the merge must give a key: the per-call value when there is one.
MergedValue(d, s, key) ==
    IF HasKey(ItemsOf(s), key) THEN Lookup(ItemsOf(s), key) ELSE Lookup(ItemsOf(d), key)

\* C4: the effective settings are None when neither the client nor the call
\* has settings, the one mapping when only one side has, and otherwise the
\* union of the keys with the call's value on every shared key; the request
\* carries exactly these settings.
C4_SettingsMerge ==
    SentBy({"execute", "open_stream", "read_batches", "read_table"}) =>
        LET d == client.default_settings
            s == call.settings
            e == _combine_settings(client, s)
        IN  /\ d.k = "none" /\ s.k = "none" => e = VNone
            /\ d.k = "none" /\ s.k = "dict" => e = s
            /\ d.k = "dict" /\ s.k = "none" => e = d
            /\ d.k = "dict" /\ s.k = "dict" =>
                  /\ e.k = "dict"
                  /\ DistinctKeys(e.v)
                  /\ KeysOf(e) = KeysOf(d) \cup KeysOf(s)
                  /\ \A key \in KeysOf(e) : Lookup(e.v, key) = MergedValue(d, s, key)
            /\ DecodedPairs(request.url) =
                  {<<str(key), str(MergedValue(d, s, key))>> : key \in KeysOf(d) \cup KeysOf(s)}

\* C4 witness: a call with settings on a client with default settings that
\* share the key limit, and the request carries the call's limit.
C4_Witness ==
    /\ SentBy({"execute"})
    /\ HasKey(ItemsOf(client.default_settings), Limit)
    /\ HasKey(ItemsOf(call.settings), Limit)
    /\ Lookup(client.default_settings.v, Limit) /= Lookup(call.settings.v, Limit)
    /\ <<<<"limit">>, <<"1">>>> \in DecodedPairs(request.url)

\* The latest outcome is the outcome of the latest request.
Answered ==
    /\ request.method = "POST"
    /\ ~answer.fault
    /\ result.op \in {"execute", "open_stream", "read_table", "insert", "next"}

StatusMessage(status) ==
    <<"Unexpected HTTP response status code: ">> \o IntStr(status) \o <<".">>

\* C5: after a request, a status other than 200 raises ClickhouseException
\* with that status, the raw response body and the status in its message;
\* status 200 raises no ClickhouseException; on a streaming read the codec
\* is not opened on a status other than 200.
C5_NonSuccessRaises ==
    Answered =>
        /\ answer.status /= OK =>
              /\ result.kind = "raise"
              /\ result.exc.type = "ClickhouseException"
              /\ result.exc.status = answer.status
              /\ result.exc.message = StatusMessage(answer.status)
              /\ result.exc.body = answer.data
        /\ answer.status = OK => result.exc.type /= "ClickhouseException"

\* What holds of the code: the same, with the body as the str() of the bytes.
NonSuccessRaisesRepr ==
    Answered =>
        /\ answer.status /= OK =>
              /\ result.kind = "raise"
              /\ result.exc.type = "ClickhouseException"
              /\ result.exc.status = answer.status
              /\ result.exc.message = StatusMessage(answer.status)
              /\ result.exc.body = <<"b'">> \o answer.data \o <<"'">>
        /\ answer.status = OK => result.exc.type /= "ClickhouseException"

\* C6: when a generator of read_batches has ended, by exhaustion, by the
\* consumer closing it, by an error of the codec or by a status other than
\* 200, no response obtained by read_batches is open.
C6_ResponseReleased ==
    gen.pc \in {"none", "done"} =>
        \A i \in 1..Len(responses) : ~(responses[i].open /\ responses[i].op = "read_batches")

\* The paths on which the response is released: every one on which the
\* codec could open the stream.
ReleasedOnceOpened ==
    gen.pc = "done" /\ gen.resp > 0 => ~responses[gen.resp].open

\* read_table got a well-formed stream to its end.
TableRead ==
    /\ call.op = "read_table"
    /\ ~answer.fault
    /\ answer.status = OK
    /\ answer.stream.schema /= "malformed"
    /\ answer.stream.tail = "eos"

\* C7: read_table on a stream of zero batches returns a table of no rows with
\* the supplied schema when a schema is given and fails with "Must pass
\* schema, or at least one RecordBatch" (no ClickhouseException) when none
\* is; with batches and a schema the table returned has the supplied schema.
C7_EmptyResultSchema ==
    TableRead =>
        /\ answer.stream.batches = <<>> /\ call.schema /= NoSchema =>
              /\ result.kind = "return"
              /\ result.val.rows = <<>>
              /\ result.val.schema = call.schema
        /\ answer.stream.batches = <<>> /\ call.schema = NoSchema =>
              /\ result.kind = "raise"
              /\ result.exc.type = "ValueError"
              /\ result.exc.message = <<"Must pass schema, or at least one RecordBatch">>
        /\ answer.stream.batches /= <<>> /\ call.schema /= NoSchema /\ result.kind = "return" =>
              result.val.schema = call.schema

\* C7 witness: a stream of zero batches was read with a schema other than
\* the stream's, and the empty table has it.
C7_Witness ==
    /\ TableRead
    /\ answer.stream.batches = <<>>
    /\ call.schema = "s2"
    /\ result.kind = "return"
    /\ result.val = [schema |-> "s2", rows |-> <<>>]

Fields(req) == req.body.v

FieldCount(req, name) ==
    Cardinality({i \in 1..Len(Fields(req)) : Fields(req)[i][1] = name})

FormatArrowStream == <<" ", "FORMAT", " ", "ArrowStream">>

\* C8: a request of execute or open_stream has one field query, the
\* caller's text (followed by " FORMAT ArrowStream" for open_stream), and one
\* field param_<name> per parameter holding bind_param(value, false); it
\* carries the two authentication headers; its URL is the base URL when the
\* effective settings are absent or empty and else the base URL with one
\* key=value pair per effective setting.
C8_RequestConstruction ==
    SentBy({"execute", "open_stream"}) =>
        LET ps == ItemsOf(call.params)
            e == ItemsOf(_combine_settings(client, call.settings))
        IN  /\ request.body.k = "multipart"
            /\ FieldCount(request, <<"query">>) = 1
            /\ Lookup(Fields(request), <<"query">>) =
                  (IF call.op = "execute" THEN call.query
                   ELSE call.query \o FormatArrowStream)
            /\ Len(Fields(request)) = 1 + Len(ps)
            /\ \A i \in 1..Len(ps) :
                  /\ FieldCount(request, <<"param_">> \o ps[i][1].v) = 1
                  /\ Lookup(Fields(request), <<"param_">> \o ps[i][1].v)
                        = bind_param(ps[i][2], FALSE)
            /\ Len(ps) > 0 =>
                  /\ Lookup(Fields(request), <<"param_", "s">>) = <<"1", "0">>
                  /\ Lookup(Fields(request), <<"param_", "expected">>)
                        = <<"(", "'", "a", "'", ",", " ", "'", "b", "'", ")">>
            /\ HasKey(request.headers, "X-ClickHouse-User")
            /\ Lookup(request.headers, "X-ClickHouse-User") = <<"default">>
            /\ HasKey(request.headers, "X-ClickHouse-Key")
            /\ Lookup(request.headers, "X-ClickHouse-Key") = <<"test">>
            /\ e = <<>> => request.url = client.url
            /\ e /= <<>> =>
                  /\ UrlBase(request.url) = client.url
                  /\ Len(UrlPairs(request.url)) = Len(e)
                  /\ \A i \in 1..Len(e) :
                        /\ unquote_plus(UrlPairs(request.url)[i][1]) = str(e[i][1])
                        /\ unquote_plus(UrlPairs(request.url)[i][2]) = str(e[i][2])

\* C8 witness: open_stream was called with parameters and settings.
C8_Witness ==
    /\ SentBy({"open_stream"})
    /\ Len(Fields(request)) = 3
    /\ Len(UrlPairs(request.url)) >= 2

\* got is the first batches of the stream, in the stream's order.
IsPrefix(s, t) == Len(s) <= Len(t) /\ s = SubSeq(t, 1, Len(s))

\* C9: the generator of read_batches yields the batches of the stream in
\* order, each once, and ends at the end of the stream without an error; once
\* it has ended it yields nothing more and sends nothing; every generator
\* that is started sends a request of its own; read_table returns the rows of
\* all the batches in order.
C9_State ==
    /\ gen.pc \in {"suspended", "done"} /\ gen.resp > 0 =>
          IsPrefix(gen.got, gen.stream.batches)
    /\ gen.pc = "suspended" /\ result.op = "next" =>
          /\ result.kind = "return"
          /\ gen.got /= <<>>
          /\ result.val = gen.stream.batches[Len(gen.got)]
    /\ TableRead /\ result.kind = "return" =>
          result.val.rows = ConcatRows(answer.stream.batches)

C9_Step ==
    /\ gen.pc = "done" /\ gen'.pc = "done" =>
          /\ gen' = gen
          /\ nreq' = nreq
          /\ result'.kind = "raise" /\ result'.exc.type = "StopIteration"
    /\ gen.pc = "created" /\ result'.op = "next" => nreq' = nreq + 1
    /\ gen.pc = "suspended" /\ gen'.pc = "suspended" =>
          Len(gen'.got) = Len(gen.got) + 1
    /\ /\ gen.pc \in {"created", "suspended"}
       /\ gen'.pc = "done"
       /\ result'.op = "next"
       /\ gen'.resp > 0
       /\ gen'.stream.tail = "eos"
       => /\ gen'.got = gen'.stream.batches
          /\ result'.exc.type = "StopIteration"

C9_BatchesInOrder == []C9_State /\ [][C9_Step]_vars

\* C9 witness: a second generator, after a first one ended, has yielded two
\* different batches and ended at the end of its stream.
C9_Witness ==
    /\ ncalls = 2
    /\ nreq = 2
    /\ gen.pc = "done"
    /\ result.exc.type = "StopIteration"
    /\ Len(gen.got) = 2
    /\ gen.got[1] /= gen.got[2]

RECURSIVE ColumnClause(_)
ColumnClause(names) ==
    IF names = <<>> THEN <<>>
    ELSE (IF Len(names) > 1 THEN ColumnClause(SubSeq(names, 1, Len(names) - 1)) \o <<",", " ">>
          ELSE <<>>)
         \o <<Backtick>> \o names[Len(names)] \o <<Backtick>>

\* C10: insert sends one POST, not streamed, whose body is the serialized
\* data, with content type application/octet-stream and the two
\* authentication headers, and whose URL has the parameter query =
\* "INSERT INTO <table> (<columns>) FORMAT Arrow", the columns in backticks
\* in the data's order joined with ", "; a status other than 200 raises
\* ClickhouseException.
C10_State ==
    SentBy({"insert"}) =>
        /\ request.preload_content
        /\ request.body = [k |-> "ipc_file", v |-> call.data]
        /\ Lookup(request.headers, "Content-Type") = <<"application/octet-stream">>
        /\ Lookup(request.headers, "X-ClickHouse-User") = <<"default">>
        /\ Lookup(request.headers, "X-ClickHouse-Key") = <<"test">>
        /\ Len(request.headers) = 3
        /\ UrlBase(request.url) = client.url
        /\ DecodedPairs(request.url) =
              {<< <<"query">>,
                  <<"INSERT", " ", "INTO", " ">> \o call.table \o <<" ", "(">>
                      \o ColumnClause(call.data.column_names)
                      \o <<")", " ", "FORMAT", " ", "Arrow">> >>}
        /\ ~answer.fault /\ answer.status /= OK =>
              /\ result.kind = "raise"
              /\ result.exc.type = "ClickhouseException"
              /\ result.exc.status = answer.status
        /\ ~answer.fault /\ answer.status = OK => result.kind = "return"

C10_Step == call'.op = "insert" /\ ncalls' = ncalls + 1 => nreq' = nreq + 1

C10_Insert == []C10_State /\ [][C10_Step]_vars

\* C10 witness: a table of two columns was inserted and the server answered
\* 200.
C10_Witness ==
    /\ SentBy({"insert"})
    /\ Len(call.data.column_names) = 2
    /\ result.kind = "return"
    /\ request.url = <<"http://localhost:8123/", "?", "query", "=",
                       "INSERT", "+", "INTO", "+", "numbers", "+", "%28",
                       "%60", "ints", "%60", "%2C", "+", "%60", "strs", "%60",
                       "%29", "+", "FORMAT", "+", "Arrow">>

\* The step made a request that failed: no response, or a status other than 200.
FailedRequest == nreq' = nreq + 1 /\ (answer'.fault \/ answer'.status /= OK)

\* The step is a call of a method that sends its request before it returns.
EagerCall ==
    ncalls' = ncalls + 1 /\ call'.op \in {"execute", "open_stream", "insert", "read_table"}

\* C11: the client never retries. Every call of execute, open_stream, insert
\* or read_table and every first pull on a read_batches generator makes one
\* urlopen call and no other step makes any; when that request fails or
\* answers a status other than 200 the operation ends at once by raising the
\* error, and a generator that ended so sends nothing more and does not
\* raise the error again.
C11_State == nreq <= ncalls

C11_Step ==
    /\ nreq' \in {nreq, nreq + 1}
    /\ EagerCall => nreq' = nreq + 1
    /\ gen.pc = "created" /\ result'.op = "next" => nreq' = nreq + 1
    /\ ~EagerCall /\ ~(gen.pc = "created" /\ result'.op = "next") => nreq' = nreq
    /\ FailedRequest =>
          /\ result'.kind = "raise"
          /\ result'.exc.type =
                (IF answer'.fault THEN "TransportError" ELSE "ClickhouseException")
          /\ gen'.pc \in {"none", "done"}
    /\ gen.pc = "done" =>
          /\ nreq' = nreq
          /\ result'.op = "next" => result'.exc.type = "StopIteration"

C11_NoRetry == []C11_State /\ [][C11_Step]_vars

\* C11 witness: a generator whose first pull failed was pulled again; one
\* request was sent in all and the second pull ended the iteration.
C11_Witness ==
    /\ call.op = "read_batches"
    /\ ncalls = 1
    /\ nreq = 1
    /\ gen.pc = "done"
    /\ gen.resp = 0
    /\ result.op = "next"
    /\ result.exc.type = "StopIteration"

\* C12: no operation changes what the client was constructed with. In every
\* step, of a call that succeeds or fails, the client's base URL, its two
\* authentication headers and its default settings stay as they are, and
\* the settings mapping the caller passed is after the call what it was when
\* passed: the merge of the settings and the added content type go to new
\* mappings.
C12_State ==
    /\ client.url = <<"http://localhost:8123/">>
    /\ client.headers = <<<<"X-ClickHouse-User", <<"default">>>>,
                          <<"X-ClickHouse-Key", <<"test">>>>>>
    /\ client.default_settings \in DefaultSettingChoices
    /\ passed = call.settings
    /\ request.method = "POST" =>
          /\ HasKey(request.headers, "Content-Type")
          /\ ~HasKey(client.headers, "Content-Type")

C12_Step == client' = client

C12_ClientUnchanged == []C12_State /\ [][C12_Step]_vars

\* C12 witness: the second call of a client with default settings merged
\* them with the caller's settings, which share a key, and sent the merge.
C12_Witness ==
    /\ ncalls = 2
    /\ request.method = "POST"
    /\ Truthy(client.default_settings)
    /\ Truthy(passed)
    /\ HasKey(client.default_settings.v, Limit)
    /\ HasKey(passed.v, Limit)
    /\ Len(UrlPairs(request.url)) = 3
    /\ Len(client.default_settings.v) = 2
    /\ Len(passed.v) = 2

\* The step got a status other than 200 and raised it as ClickhouseException.
RaisedStatus ==
    ~answer'.fault /\ answer'.status /= OK =>
        /\ result'.kind = "raise"
        /\ result'.exc.type = "ClickhouseException"
        /\ result'.exc.status = answer'.status

\* C13: a call of read_batches sends no request and raises nothing; the
\* request is sent by the first pull, where a status other than 200 is
\* raised; a generator that is never pulled sends no request and has no
\* response; read_table and open_stream send the request and raise within
\* the call.
C13_State ==
    /\ result.op = "read_batches" => result.kind = "return" /\ request = NoRequest
    /\ gen.pc = "created" => gen.resp = 0 /\ gen.got = <<>>

C13_Step ==
    /\ ncalls' = ncalls + 1 /\ call'.op = "read_batches" =>
          /\ nreq' = nreq
          /\ responses' = responses
          /\ result' = Return("read_batches", "generator")
          /\ gen'.pc = "created"
    /\ gen.pc = "created" /\ result'.op = "next" =>
          /\ nreq' = nreq + 1
          /\ request'.method = "POST"
          /\ RaisedStatus
    /\ gen.pc = "created" /\ result'.op = "close" =>
          /\ nreq' = nreq
          /\ responses' = responses
          /\ gen' = [gen EXCEPT !.pc = "done"]
    /\ ncalls' = ncalls + 1 /\ call'.op \in {"read_table", "open_stream"} =>
          /\ nreq' = nreq + 1
          /\ request'.method = "POST"
          /\ result'.op = call'.op
          /\ RaisedStatus

C13_LazyRequest == []C13_State /\ [][C13_Step]_vars

\* C13 witness: read_batches was called once and returned; the first pull
\* sent the one request and raised the status the server answered.
C13_Witness ==
    /\ call.op = "read_batches"
    /\ ncalls = 1
    /\ nreq = 1
    /\ gen.pc = "done"
    /\ result.op = "next"
    /\ result.exc.type = "ClickhouseException"
    /\ result.exc.status = 503

====
